---- MODULE Spec2Model ----
(***************************************************************************)
(* openworkers-core: the task completion channel (task.rs), the streaming  *)
(* response pipeline (http.rs) and the operation delegation bus (ops.rs).  *)
(*                                                                         *)
(* Byte strings are sequences of one-character strings: "ok" is            *)
(* <<"o","k">>.  Rust's Option is modelled as <<"None">> / <<"Some", v>>   *)
(* and Result as <<"Ok", v>> / <<"Err", e>>.                               *)
(***************************************************************************)
EXTENDS Naturals, Sequences, FiniteSets, TLC

VARIABLES
    \* ---- task.rs: one Event and its completion channel ----
    event,        \* the Event held by the code that accepted it, or NoEvent
    res_tx,       \* the completion sender: "none", "held", "sent", "dropped"
    res_slot,     \* the value slot of the one-shot channel: None or Some(v)
    res_rx,       \* the paired receiver: "none", "waiting", "resolved"
    observed,     \* outcomes the receiver has observed, in order
    \* ---- http.rs: the response body stream ----
    body,         \* the ResponseBody of the response, or NoBody
    depth,        \* capacity of the bounded mpsc channel (stream_buffer_size)
    buf,          \* elements sent and not yet received
    pending,      \* element of a send that is awaiting capacity, or NoElem
    txAlive,      \* the producer still holds the mpsc Sender
    rxAlive,      \* the mpsc Receiver has not been dropped
    emitted,      \* elements accepted by the channel, in emission order
    received,     \* elements handed to the consumer, in order
    consumer,     \* "none", "collect", "hyper", "full"
    cpc,          \* collect(): "idle", "recv", "done"
    chunks,       \* collect(): the Vec of Ok chunks pushed so far
    result,       \* collect(): the returned Option<Bytes>, or NoResult
    disconnect_tx,\* StreamBody.disconnect_tx: "None" or "Some"
    ended,        \* poll_frame has returned end-of-stream
    dropped,      \* the StreamBody (or Full body) has been dropped
    notify,       \* observer's one-shot: "none","pending","sent","closed"
    signals,      \* what the observer's receiver resolved with, in order
    \* ---- ops.rs: the operation bus ----
    nOps,         \* operations dispatched by the running task
    lastOp,       \* the Operation of the latest dispatch, or NoOp
    lastHandler,  \* the handler of the latest dispatch
    calls,        \* handler methods invoked by the latest dispatch
    opResult,     \* what the latest dispatch returned, or Unwound
    stderr,       \* lines written to the default sink
    taskState,    \* "running", or "unwinding" after a panic
    \* ---- termination.rs: a TerminationReason and what is derived from it ----
    reason,       \* the TerminationReason under inspection
    statusCode,   \* http_status() of it, once computed
    class,        \* the three category predicates of it, once computed
    descr,        \* description() of it, once computed
    \* ---- http.rs: parsing an HttpMethod ----
    methodStr,    \* the &str handed to from_str, as a sequence of chars
    parsed,       \* the Result<HttpMethod, ()> it returned
    \* ---- limits.rs, ops.rs: KV calls of one task under a BindingLimit ----
    kvLimit,      \* RuntimeLimits.kv_limit, once the limits are built
    kvCalls,      \* per call: "new", "running" or "done", handler and result
    \* ---- worker.rs: worker instances and the tasks handed to them ----
    workers,      \* per instance: exec in flight, its task, abort requested
    tasks,        \* per task: its channel, what exec returned, what rx saw
    \* ---- http.rs: conversions from and to the transports ----
    conv,         \* the latest conversion: its inputs and what it returned
    lookup,       \* a lookup in the headers of the converted request
    \* ---- log.rs: parsing a LogLevel ----
    levelStr,     \* the &str handed to LogLevel::from_str, as chars
    logLevel,     \* the LogLevel it returned
    \* ---- limits.rs: a RuntimeLimits value under construction ----
    limits,       \* the value, once built
    overridden    \* the fields given explicitly, the rest from default()

taskVars   == <<event, res_tx, res_slot, res_rx, observed>>
streamVars == <<body, depth, buf, pending, txAlive, rxAlive, emitted, received,
                consumer, cpc, chunks, result, disconnect_tx, ended, dropped,
                notify, signals>>
opsVars    == <<nOps, lastOp, lastHandler, calls, opResult, stderr, taskState>>
termVars   == <<reason, statusCode, class, descr>>
methodVars == <<methodStr, parsed>>
busVars    == <<kvLimit, kvCalls>>
workerVars == <<workers, tasks>>
convVars   == <<conv, lookup>>
logVars    == <<levelStr, logLevel>>
limitVars  == <<limits, overridden>>
restVars   == <<convVars, logVars, limitVars>>
priorVars  == <<taskVars, streamVars, opsVars, termVars, methodVars, busVars,
                workerVars>>
hostVars   == <<termVars, methodVars, busVars, workerVars, restVars>>
vars       == <<taskVars, streamVars, opsVars, hostVars>>

None    == <<"None">>
Some(v) == <<"Some", v>>
Ok(v)   == <<"Ok", v>>
Err(e)  == <<"Err", e>>

(***************************************************************************)
(* task.rs                                                                 *)
(***************************************************************************)
NoEvent == [type |-> "NoEvent"]
\* tokio::sync::oneshot::error::RecvError, what the receiver resolves with
\* when the sender was dropped without a send
RecvError == Err("RecvError")

RequestBodyNone     == [kind |-> "None"]
RequestBodyBytes(b) == [kind |-> "Bytes", bytes |-> b]

HttpRequest(method, url, b) ==
    [method |-> method, url |-> url, headers |-> {}, body |-> b]

Requests ==
    { HttpRequest("GET", "http://x/", RequestBodyNone),
      HttpRequest("POST", "http://x/", RequestBodyBytes(<<"o">>)) }

ResponseBodyNone     == [kind |-> "None"]
ResponseBodyBytes(b) == [kind |-> "Bytes", bytes |-> b]
ResponseBodyStream   == [kind |-> "Stream"]

HttpResponse(status, b) ==
    [status |-> status, headers |-> <<>>, body |-> b]

\* responses a fetch handler may deliver; the second is the "empty" response
Responses ==
    { HttpResponse(200, ResponseBodyBytes(<<"o", "k">>)),
      HttpResponse(200, ResponseBodyNone),
      HttpResponse(500, ResponseBodyNone) }

TaskResult_ok(data) == [success |-> TRUE, data |-> data, error |-> None]
TaskResult_err(msg) == [success |-> FALSE, data |-> None, error |-> Some(msg)]
TaskResult_success  == [success |-> TRUE, data |-> None, error |-> None]
TaskResult_default  == TaskResult_success

TaskResults ==
    { TaskResult_ok(Some("d")), TaskResult_ok(None), TaskResult_err("boom"),
      TaskResult_success, TaskResult_default }

TaskSource_Schedule(time) == [type |-> "schedule", time |-> time]
TaskSource_Chained(tid, wid, wname) ==
    [type |-> "chained", parent_task_id |-> tid, parent_worker_id |-> wid,
     parent_worker_name |-> wname]
TaskSource_Worker(wid, wname) ==
    [type |-> "worker", worker_id |-> wid, worker_name |-> wname]
TaskSource_Invoke(origin) == [type |-> "invoke", origin |-> origin]

MaxAttempt == 2
Attempts == 0 .. MaxAttempt
Payloads == {None, Some("p")}
Times    == {0, 7}
Origins  == {None, Some("cli")}
Sources  ==
    { None,
      Some(TaskSource_Schedule(7)),
      Some(TaskSource_Chained("t0", "w0", None)),
      Some(TaskSource_Worker("w0", Some("n"))),
      Some(TaskSource_Invoke(None)) }

FetchInit_new(req) == [req |-> req]

TaskInit_new(task_id, payload, source, attempt) ==
    [task_id |-> task_id, payload |-> payload, source |-> source,
     attempt |-> attempt]

TaskInit_simple(task_id) ==
    [task_id |-> task_id, payload |-> None,
     source |-> Some(TaskSource_Invoke(None)), attempt |-> 1]

\* oneshot::channel(): a fresh sender/receiver pair with an empty slot
OneshotChannel ==
    /\ res_tx' = "held"
    /\ res_slot' = None
    /\ res_rx' = "waiting"
    /\ observed' = <<>>

\* a new Event is built once the previous one (if any) is settled
CanBuild == res_rx \in {"none", "resolved"}

Event_fetch(req) ==
    /\ CanBuild
    /\ OneshotChannel
    /\ event' = [type |-> "Fetch", init |-> FetchInit_new(req)]
    /\ UNCHANGED <<streamVars, opsVars, hostVars>>

Event_task(task_id, payload, source, attempt) ==
    /\ CanBuild
    /\ OneshotChannel
    /\ event' = [type |-> "Task",
                 init |-> TaskInit_new(task_id, payload, source, attempt)]
    /\ UNCHANGED <<streamVars, opsVars, hostVars>>

Event_from_schedule(task_id, time) ==
    Event_task(task_id, None, Some(TaskSource_Schedule(time)), 1)

Event_invoke(task_id, payload, origin) ==
    Event_task(task_id, payload, Some(TaskSource_Invoke(origin)), 1)

\* a sender that takes no result for a task without a source
Sendable_bySource ==
    IF event.type = "Fetch" THEN Responses
    ELSE IF event.init.source = None THEN {} ELSE TaskResults

\* the values the holder of an event can send on its completion sender
Sendable == IF event.type = "Fetch" THEN Responses ELSE TaskResults

\* a send that leaves the sender usable afterwards
SendResult_keepsSender(v) ==
    /\ res_tx = "held"
    /\ v \in Sendable
    /\ res_slot' = Some(v)
    /\ UNCHANGED <<event, res_tx, res_rx, observed, streamVars, opsVars, hostVars>>

\* res_tx.send(v): consumes the sender, stores v in the slot
SendResult(v) ==
    /\ res_tx = "held"
    /\ v \in Sendable
    /\ res_slot' = Some(v)
    /\ res_tx' = "sent"
    /\ UNCHANGED <<event, res_rx, observed, streamVars, opsVars, hostVars>>

\* a drop that completes the channel with the default result
DropSender_sendsDefault ==
    /\ res_tx = "held"
    /\ res_tx' = "dropped"
    /\ res_slot' = Some(TaskResult_default)
    /\ UNCHANGED <<event, res_rx, observed, streamVars, opsVars, hostVars>>

\* the event (and so its res_tx) goes out of scope without a send
DropSender ==
    /\ res_tx = "held"
    /\ res_tx' = "dropped"
    /\ UNCHANGED <<event, res_slot, res_rx, observed, streamVars, opsVars, hostVars>>

\* rx.await: resolves with the value once sent, with RecvError once the
\* sender is gone, and is pending otherwise; awaiting consumes the receiver
AwaitReceiver ==
    /\ res_rx = "waiting"
    /\ \/ /\ res_slot # None
          /\ observed' = Append(observed, Ok(res_slot[2]))
       \/ /\ res_slot = None
          /\ res_tx = "dropped"
          /\ observed' = Append(observed, RecvError)
    /\ res_rx' = "resolved"
    /\ UNCHANGED <<event, res_tx, res_slot, streamVars, opsVars, hostVars>>

HolderStep == DropSender \/ \E v \in TaskResults \cup Responses : SendResult(v)

TaskNext ==
    \/ \E r \in Requests : Event_fetch(r)
    \/ \E p \in Payloads, s \in Sources, a \in Attempts :
          Event_task("t1", p, s, a)
    \/ \E t \in Times : Event_from_schedule("t1", t)
    \/ \E p \in Payloads, o \in Origins : Event_invoke("t1", p, o)
    \/ \E v \in TaskResults \cup Responses : SendResult(v)
    \/ DropSender
    \/ AwaitReceiver

InitTask ==
    /\ event = NoEvent
    /\ res_tx = "none"
    /\ res_slot = None
    /\ res_rx = "none"
    /\ observed = <<>>

\* every outcome a receiver can observe
Delivered == {Ok(v) : v \in TaskResults \cup Responses}
Abandoned == RecvError

C1_Safety ==
    /\ Len(observed) <= 1
    /\ res_rx = "waiting" => observed = <<>>
    /\ res_rx = "resolved" =>
          /\ Len(observed) = 1
          /\ \/ res_tx = "sent" /\ observed[1] = Ok(res_slot[2])
                              /\ observed[1] \in Delivered
             \/ res_tx = "dropped" /\ observed[1] = Abandoned

C2_Inv ==
    (res_tx = "dropped" /\ res_rx = "resolved") =>
        /\ observed = <<RecvError>>
        /\ observed[1] \notin Delivered

\* C2: when the completion sender is dropped without a send, the receiver
\* resolves (it does not wait forever) with an error outcome that differs
\* from every delivered result, the default TaskResult included.
C2_DropIsAbandoned ==
    /\ []C2_Inv
    /\ (res_tx = "dropped") ~> (res_rx = "resolved")

C2_Witness ==
    /\ event.type = "Fetch"
    /\ res_tx = "dropped"
    /\ observed = <<RecvError>>

\* C21: every generic task carries an attempt counter of at least 1,
\* whichever constructor built it (Event::task and TaskInit::new with the
\* caller's value, the convenience constructors with 1).
C21_AttemptAtLeastOne ==
    event.type = "Task" => event.init.attempt >= 1

\* C22: the source of a generic task has no part in its completion: whether
\* the holder can send a given result or drop the sender, whether the
\* receiver can resolve, and what it resolves with are fixed by the state of
\* the channel alone, for every source (or none) the task was built with.
C22_SourceIrrelevant ==
    event.type = "Task" =>
        /\ \A v \in TaskResults : ENABLED SendResult(v) <=> res_tx = "held"
        /\ ENABLED DropSender <=> res_tx = "held"
        /\ ENABLED AwaitReceiver <=>
               (res_rx = "waiting" /\ res_tx \in {"sent", "dropped"})
        /\ res_rx = "resolved" =>
               observed = <<IF res_tx = "sent" THEN Ok(res_slot[2])
                            ELSE RecvError>>

C22_Witness ==
    /\ event.type = "Task"
    /\ event.init.source = Some(TaskSource_Chained("t0", "w0", None))
    /\ res_rx = "resolved"
    /\ observed = <<Ok(TaskResult_ok(Some("d")))>>

(***************************************************************************)
(* http.rs: ResponseBody, collect(), StreamBody                            *)
(***************************************************************************)
NoBody   == [kind |-> "NoBody"]
NoElem   == <<"NoElem">>
NoResult == <<"NoResult">>

MaxChunks == 3
MaxDepth  == 2

ChunkBytes == {<<>>, <<"o">>, <<"k">>}
\* the elements of a stream: Result<Bytes, String>
Elems == {Ok(b) : b \in ChunkBytes} \cup {Err("e")}
Bodies ==
    {ResponseBodyNone, ResponseBodyBytes(<<>>), ResponseBodyBytes(<<"o", "k">>)}

IsOk(e) == e[1] = "Ok"

\* chunks.iter().flat_map(|b| b.to_vec()).collect()
RECURSIVE Flatten(_)
Flatten(cs) == IF cs = <<>> THEN <<>> ELSE Head(cs) \o Flatten(Tail(cs))

\* a handler answers with a buffered body, or without one
RespondBuffered(b) ==
    /\ body = NoBody
    /\ body' = b
    /\ UNCHANGED <<depth, buf, pending, txAlive, rxAlive, emitted, received,
                   consumer, cpc, chunks, result, disconnect_tx, ended,
                   dropped, notify, signals, taskVars, opsVars, hostVars>>

\* a handler answers with ResponseBody::Stream(rx) over mpsc::channel(d)
RespondStream(d) ==
    /\ body = NoBody
    /\ body' = ResponseBodyStream
    /\ depth' = d
    /\ txAlive' = TRUE
    /\ rxAlive' = TRUE
    /\ UNCHANGED <<buf, pending, emitted, received, consumer, cpc, chunks,
                   result, disconnect_tx, ended, dropped, notify, signals,
                   taskVars, opsVars, hostVars>>

\* the producer calls tx.send(e).await
ProducerSend(e) ==
    /\ txAlive
    /\ pending = NoElem
    /\ Len(emitted) < MaxChunks
    /\ pending' = e
    /\ UNCHANGED <<body, depth, buf, txAlive, rxAlive, emitted, received,
                   consumer, cpc, chunks, result, disconnect_tx, ended,
                   dropped, notify, signals, taskVars, opsVars, hostVars>>

\* a send that never waits for capacity
SendComplete_unbounded ==
    /\ pending # NoElem
    /\ rxAlive
    /\ buf' = Append(buf, pending)
    /\ emitted' = Append(emitted, pending)
    /\ pending' = NoElem
    /\ UNCHANGED <<body, depth, txAlive, rxAlive, received, consumer, cpc,
                   chunks, result, disconnect_tx, ended, dropped, notify,
                   signals, taskVars, opsVars, hostVars>>

\* a send that keeps one slot of the queue unused
SendComplete_offByOne ==
    /\ pending # NoElem
    /\ rxAlive
    /\ Len(buf) + 1 < depth
    /\ buf' = Append(buf, pending)
    /\ emitted' = Append(emitted, pending)
    /\ pending' = NoElem
    /\ UNCHANGED <<body, depth, txAlive, rxAlive, received, consumer, cpc,
                   chunks, result, disconnect_tx, ended, dropped, notify,
                   signals, taskVars, opsVars, hostVars>>

\* the send acquires a slot of the bounded queue and completes
SendComplete ==
    /\ pending # NoElem
    /\ rxAlive
    /\ Len(buf) < depth
    /\ buf' = Append(buf, pending)
    /\ emitted' = Append(emitted, pending)
    /\ pending' = NoElem
    /\ UNCHANGED <<body, depth, txAlive, rxAlive, received, consumer, cpc,
                   chunks, result, disconnect_tx, ended, dropped, notify,
                   signals, taskVars, opsVars, hostVars>>

\* the receiver is gone: the send returns SendError and the element is lost
SendFail ==
    /\ pending # NoElem
    /\ ~rxAlive
    /\ pending' = NoElem
    /\ UNCHANGED <<body, depth, buf, txAlive, rxAlive, emitted, received,
                   consumer, cpc, chunks, result, disconnect_tx, ended,
                   dropped, notify, signals, taskVars, opsVars, hostVars>>

\* the producer drops its Sender: the channel closes once drained
ProducerDrop ==
    /\ txAlive
    /\ pending = NoElem
    /\ txAlive' = FALSE
    /\ UNCHANGED <<body, depth, buf, pending, rxAlive, emitted, received,
                   consumer, cpc, chunks, result, disconnect_tx, ended,
                   dropped, notify, signals, taskVars, opsVars, hostVars>>

\* rx.recv() has an element to return
RecvReady == buf # <<>>
\* rx.recv() returns None: every sender dropped and the queue drained
RecvClosed == buf = <<>> /\ ~txAlive

\* ResponseBody::collect(), up to its first suspension point
CollectStart ==
    /\ consumer = "none"
    /\ body # NoBody
    /\ consumer' = "collect"
    /\ IF body.kind = "None"
         THEN cpc' = "done" /\ result' = None /\ chunks' = chunks
       ELSE IF body.kind = "Bytes"
         THEN cpc' = "done" /\ result' = Some(body.bytes) /\ chunks' = chunks
       ELSE cpc' = "recv" /\ result' = result /\ chunks' = <<>>
    /\ UNCHANGED <<body, depth, buf, pending, txAlive, rxAlive, emitted,
                   received, disconnect_tx, ended, dropped, notify, signals,
                   taskVars, opsVars, hostVars>>

\* a loop turn that puts the new chunk in front of the earlier ones
CollectRecv_pushFront ==
    /\ cpc = "recv"
    /\ RecvReady
    /\ buf' = Tail(buf)
    /\ received' = Append(received, Head(buf))
    /\ chunks' = IF IsOk(Head(buf)) THEN <<Head(buf)[2]>> \o chunks
                 ELSE chunks
    /\ UNCHANGED <<body, depth, pending, txAlive, rxAlive, emitted, consumer,
                   cpc, result, disconnect_tx, ended, dropped, notify,
                   signals, taskVars, opsVars, hostVars>>

\* one turn of `while let Some(result) = rx.recv().await`
CollectRecv ==
    /\ cpc = "recv"
    /\ RecvReady
    /\ buf' = Tail(buf)
    /\ received' = Append(received, Head(buf))
    /\ chunks' = IF IsOk(Head(buf)) THEN Append(chunks, Head(buf)[2])
                 ELSE chunks
    /\ UNCHANGED <<body, depth, pending, txAlive, rxAlive, emitted, consumer,
                   cpc, result, disconnect_tx, ended, dropped, notify,
                   signals, taskVars, opsVars, hostVars>>

\* a return that takes an empty concatenation for no body at all
CollectEnd_emptyAsNone ==
    /\ cpc = "recv"
    /\ RecvClosed
    /\ result' = IF Flatten(chunks) = <<>> THEN None ELSE Some(Flatten(chunks))
    /\ cpc' = "done"
    /\ rxAlive' = FALSE
    /\ UNCHANGED <<body, depth, buf, pending, txAlive, emitted, received,
                   consumer, chunks, disconnect_tx, ended, dropped, notify,
                   signals, taskVars, opsVars, hostVars>>

\* recv() returned None: the loop ends and collect() returns
CollectEnd ==
    /\ cpc = "recv"
    /\ RecvClosed
    /\ result' = IF chunks = <<>> THEN None ELSE Some(Flatten(chunks))
    /\ cpc' = "done"
    /\ rxAlive' = FALSE
    /\ UNCHANGED <<body, depth, buf, pending, txAlive, emitted, received,
                   consumer, chunks, disconnect_tx, ended, dropped, notify,
                   signals, taskVars, opsVars, hostVars>>

StreamBody_new == "None"
StreamBody_with_disconnect_notify == "Some"

\* a conversion that hands the sender to the body of every kind
IntoHyperWithDisconnect_keepsTx(dtx) ==
    /\ consumer = "none"
    /\ body # NoBody
    /\ consumer' = IF body.kind = "Stream" THEN "hyper" ELSE "full"
    /\ disconnect_tx' = IF dtx = "Some" THEN StreamBody_with_disconnect_notify
                        ELSE StreamBody_new
    /\ notify' = IF dtx = "Some" THEN "pending" ELSE "none"
    /\ UNCHANGED <<body, depth, buf, pending, txAlive, rxAlive, emitted,
                   received, cpc, chunks, result, ended, dropped, signals,
                   taskVars, opsVars, hostVars>>

\* HttpResponse::into_hyper_with_disconnect(disconnect_tx)
IntoHyperWithDisconnect(dtx) ==
    /\ consumer = "none"
    /\ body # NoBody
    /\ IF body.kind = "Stream"
         THEN /\ consumer' = "hyper"
              /\ disconnect_tx' = IF dtx = "Some"
                                    THEN StreamBody_with_disconnect_notify
                                    ELSE StreamBody_new
              /\ notify' = IF dtx = "Some" THEN "pending" ELSE "none"
         ELSE /\ consumer' = "full"
              /\ disconnect_tx' = "None"
              /\ notify' = IF dtx = "Some" THEN "closed" ELSE "none"
    /\ UNCHANGED <<body, depth, buf, pending, txAlive, rxAlive, emitted,
                   received, cpc, chunks, result, ended, dropped, signals,
                   taskVars, opsVars, hostVars>>

\* HttpResponse::into_hyper()
IntoHyper == IntoHyperWithDisconnect("None")

\* StreamBody::poll_frame when poll_recv is Ready
PollFrame ==
    /\ consumer = "hyper"
    /\ ~dropped
    /\ \/ /\ RecvReady
          /\ buf' = Tail(buf)
          /\ received' = Append(received, Head(buf))
          /\ ended' = ended
       \/ /\ RecvClosed
          /\ ~ended
          /\ ended' = TRUE
          /\ UNCHANGED <<buf, received>>
    /\ UNCHANGED <<body, depth, pending, txAlive, rxAlive, emitted, consumer,
                   cpc, chunks, result, disconnect_tx, dropped, notify,
                   signals, taskVars, opsVars, hostVars>>

\* a drop that signals only when the stream was not polled to its end
DropBody_quietAfterEnd ==
    /\ consumer \in {"hyper", "full"}
    /\ ~dropped
    /\ dropped' = TRUE
    /\ rxAlive' = IF consumer = "hyper" THEN FALSE ELSE rxAlive
    /\ IF disconnect_tx = "Some"
         THEN /\ disconnect_tx' = "None"
              /\ notify' = IF ended THEN "closed" ELSE "sent"
         ELSE UNCHANGED <<disconnect_tx, notify>>
    /\ UNCHANGED <<body, depth, buf, pending, txAlive, emitted, received,
                   consumer, cpc, chunks, result, ended, signals, taskVars,
                   opsVars, hostVars>>

\* a drop that tells the observer nothing
DropBody_silent ==
    /\ consumer \in {"hyper", "full"}
    /\ ~dropped
    /\ dropped' = TRUE
    /\ rxAlive' = IF consumer = "hyper" THEN FALSE ELSE rxAlive
    /\ UNCHANGED <<body, depth, buf, pending, txAlive, emitted, received,
                   consumer, cpc, chunks, result, ended, signals, taskVars,
                   opsVars, hostVars, disconnect_tx, notify>>

\* impl Drop for StreamBody (and the drop of a Full body)
DropBody ==
    /\ consumer \in {"hyper", "full"}
    /\ ~dropped
    /\ dropped' = TRUE
    /\ rxAlive' = IF consumer = "hyper" THEN FALSE ELSE rxAlive
    /\ IF disconnect_tx = "Some"
         THEN disconnect_tx' = "None" /\ notify' = "sent"
         ELSE UNCHANGED <<disconnect_tx, notify>>
    /\ UNCHANGED <<body, depth, buf, pending, txAlive, emitted, received,
                   consumer, cpc, chunks, result, ended, signals, taskVars,
                   opsVars, hostVars>>

\* the observer awaits its one-shot receiver
ObserverAwait ==
    /\ notify \in {"sent", "closed"}
    /\ signals = <<>>
    /\ signals' = <<IF notify = "sent" THEN "disconnected" ELSE "closed">>
    /\ UNCHANGED <<body, depth, buf, pending, txAlive, rxAlive, emitted,
                   received, consumer, cpc, chunks, result, disconnect_tx,
                   ended, dropped, notify, taskVars, opsVars, hostVars>>

ProducerStep ==
    \/ \E e \in Elems : ProducerSend(e)
    \/ SendComplete
    \/ SendFail
    \/ ProducerDrop

CollectStep == CollectRecv \/ CollectEnd

StreamNext ==
    \/ \E b \in Bodies : RespondBuffered(b)
    \/ \E d \in 1 .. MaxDepth : RespondStream(d)
    \/ \E e \in Elems : ProducerSend(e)
    \/ SendComplete
    \/ SendFail
    \/ ProducerDrop
    \/ CollectStart
    \/ CollectRecv
    \/ CollectEnd
    \/ IntoHyperWithDisconnect("Some")
    \/ IntoHyper
    \/ PollFrame
    \/ DropBody
    \/ ObserverAwait

InitStream ==
    /\ body = NoBody
    /\ depth = 0
    /\ buf = <<>>
    /\ pending = NoElem
    /\ txAlive = FALSE
    /\ rxAlive = FALSE
    /\ emitted = <<>>
    /\ received = <<>>
    /\ consumer = "none"
    /\ cpc = "idle"
    /\ chunks = <<>>
    /\ result = NoResult
    /\ disconnect_tx = "None"
    /\ ended = FALSE
    /\ dropped = FALSE
    /\ notify = "none"
    /\ signals = <<>>

AllOk(es) == \A i \in 1 .. Len(es) : IsOk(es[i])
HasErr(es) == \E i \in 1 .. Len(es) : ~IsOk(es[i])
\* 1-based position of the first Err element
FirstErr(es) == CHOOSE i \in 1 .. Len(es) :
                    ~IsOk(es[i]) /\ \A j \in 1 .. i - 1 : IsOk(es[j])
\* the bytes of the Ok elements of es, in order
RECURSIVE BytesInOrder(_)
BytesInOrder(es) ==
    IF es = <<>> THEN <<>>
    ELSE (IF IsOk(Head(es)) THEN Head(es)[2] ELSE <<>>) \o BytesInOrder(Tail(es))
\* the bytes an Option<Bytes> holds, none for None
BytesOf(r) == IF r = None THEN <<>> ELSE r[2]

\* collect() has returned for a Stream body
CollectedStream == body.kind = "Stream" /\ consumer = "collect" /\ cpc = "done"

\* C3 as stated: for N >= 0 Ok chunks and a clean close, collect() returns
\* exactly the concatenation of the chunks in emission order.
C3_Original ==
    (CollectedStream /\ AllOk(emitted)) => result = Some(BytesInOrder(emitted))

\* C3 amended: for N >= 1 Ok chunks and a clean close, collect() returns
\* Some of the concatenation of the chunks in emission order; for N = 0 it
\* returns None, not an empty buffer.
C3_Concatenation ==
    (CollectedStream /\ AllOk(emitted)) =>
        IF emitted = <<>> THEN result = None
        ELSE result = Some(BytesInOrder(emitted))

C3_Witness ==
    /\ CollectedStream
    /\ emitted = <<Ok(<<"o">>), Ok(<<>>), Ok(<<"k">>)>>
    /\ result = Some(<<"o", "k">>)

\* C4: with an Err marker at position k, collect() returns only the bytes of
\* the chunks before k, and receives no element after the marker.
C4_StopsAtFirstErr ==
    (CollectedStream /\ HasErr(emitted)) =>
        /\ BytesOf(result) =
              BytesInOrder(SubSeq(emitted, 1, FirstErr(emitted) - 1))
        /\ Len(received) <= FirstErr(emitted)

C5_Inv ==
    /\ Len(buf) <= depth
    /\ body.kind = "Stream" => depth >= 1
    /\ received \o buf = emitted

C5_Step ==
    \* a send completes only into a free slot, and adds the pending element
    /\ emitted' # emitted =>
          /\ Len(buf) < depth
          /\ emitted' = Append(emitted, pending)
          /\ buf' = Append(buf, pending)
    \* a receive returns the oldest buffered element, only when there is one
    /\ received' # received =>
          /\ buf # <<>>
          /\ received' = Append(received, Head(buf))
          /\ buf' = Tail(buf)
    \* a send on a full queue stays pending: it is not dropped
    /\ (pending # NoElem /\ rxAlive /\ Len(buf) = depth) => pending' = pending
    \* a receive on an empty open queue stays pending
    /\ (cpc = "recv" /\ buf = <<>> /\ txAlive) =>
          (cpc' = "recv" /\ chunks' = chunks)

\* C5: at depth d >= 1 at most d chunk-results are sent and not yet received;
\* a send on a full queue waits for a receive, a receive on an empty open
\* queue waits for a send or the close, and what was received followed by
\* what is buffered is always what was emitted: nothing lost or duplicated.
C5_Backpressure == []C5_Inv /\ [][C5_Step]_vars

C5_Witness ==
    /\ depth >= 1
    /\ Len(buf) = depth
    /\ pending # NoElem
    /\ received # <<>>
    /\ cpc = "recv"

\* C6: a producer that sends its chunks and drops the sender, against a
\* consumer in collect(), does not deadlock at any depth >= 1: collect()
\* returns, and for chunks "o","k" at depth 1 it returns "ok".
C6_CollectReturns ==
    /\ (cpc = "recv") ~> (cpc = "done")
    /\ [](cpc = "recv" =>
            \/ buf # <<>>
            \/ ~txAlive
            \/ pending = NoElem
            \/ Len(buf) < depth)
    /\ []((CollectedStream /\ depth = 1
             /\ emitted = <<Ok(<<"o">>), Ok(<<"k">>)>>)
            => result = Some(<<"o", "k">>))

C6_Witness ==
    /\ CollectedStream
    /\ depth = 1
    /\ emitted = <<Ok(<<"o">>), Ok(<<"k">>)>>
    /\ result = Some(<<"o", "k">>)

C7_Inv ==
    /\ Len(signals) <= 1
    /\ (consumer = "hyper" /\ signals # <<>>) => dropped
    /\ (consumer = "hyper" /\ notify # "none" /\ dropped /\ ~ended) =>
          /\ notify = "sent"
          /\ disconnect_tx = "None"
          /\ signals \in {<<>>, <<"disconnected">>}

\* C7: a StreamBody with a disconnect notifier that is dropped before the
\* stream is exhausted signals "disconnected" to the observer exactly once:
\* the signal is sent by the drop, not before it, and what the observer has
\* received never changes afterwards.
C7_DisconnectOnce ==
    /\ []C7_Inv
    /\ [][signals # <<>> => signals' = signals]_vars
    /\ [][(notify = "pending" /\ dropped') => notify' = "sent"]_vars

C7_Witness ==
    /\ consumer = "hyper"
    /\ dropped
    /\ ~ended
    /\ buf # <<>>
    /\ signals = <<"disconnected">>

\* C27: a StreamBody with a notifier sends the disconnect signal on every
\* drop, also after poll_frame returned end-of-stream, so the observer of a
\* response delivered completely sees "disconnected" like the observer of
\* an aborted one; a StreamBody without a notifier never signals.
C27_Inv ==
    consumer = "hyper" =>
        /\ (notify # "none" /\ dropped) =>
              /\ notify = "sent"
              /\ disconnect_tx = "None"
              /\ signals \in {<<>>, <<"disconnected">>}
        /\ (notify # "none" /\ ~dropped) =>
              /\ notify = "pending"
              /\ disconnect_tx = "Some"
              /\ signals = <<>>
        /\ notify = "none" => (disconnect_tx = "None" /\ signals = <<>>)
        /\ (dropped /\ notify = "sent" /\ signals = <<>>) =>
              ENABLED ObserverAwait

C27_SignalsOnEveryDrop ==
    /\ []C27_Inv
    /\ [][(consumer = "hyper" /\ ~dropped /\ dropped') =>
              IF disconnect_tx = "Some" THEN notify' = "sent"
              ELSE notify' = "none"]_vars

C27_Witness ==
    /\ consumer = "hyper"
    /\ ended
    /\ dropped
    /\ received # <<>>
    /\ received = emitted
    /\ signals = <<"disconnected">>

\* C28: into_hyper_with_disconnect(Some(tx)) on a None or Bytes body drops
\* the sender in the conversion without sending: from the return of the
\* conversion on the observer's receiver resolves as closed, and it never
\* sees the disconnected signal, whatever becomes of the response.
C28_Inv ==
    (consumer = "full" /\ notify # "none") =>
        /\ notify = "closed"
        /\ disconnect_tx = "None"
        /\ signals \in {<<>>, <<"closed">>}
        /\ signals = <<>> => ENABLED ObserverAwait

C28_SenderDropped ==
    /\ []C28_Inv
    /\ [][(consumer = "full" /\ notify = "closed") => notify' = "closed"]_vars

C28_Witness ==
    /\ consumer = "full"
    /\ body.kind = "Bytes"
    /\ dropped
    /\ signals = <<"closed">>

\* the Ok chunks among the elements es
OkCount(es) == Cardinality({i \in 1 .. Len(es) : IsOk(es[i])})

\* C30: collect() returns None exactly for ResponseBody::None and for a
\* Stream that delivered no Ok chunk before closing; Bytes(b) gives Some(b),
\* empty b included; a Stream with at least one Ok chunk gives Some, also
\* when every chunk is empty.  On a Stream it returns only once the channel
\* is closed and drained: with a live sender and nothing queued it waits.
C30_Inv ==
    /\ (consumer = "collect" /\ cpc = "done") =>
          /\ result # NoResult
          /\ result = None <=>
                \/ body.kind = "None"
                \/ (body.kind = "Stream" /\ OkCount(received) = 0)
          /\ body.kind = "Bytes" => result = Some(body.bytes)
          /\ body.kind = "Stream" =>
                (~txAlive /\ buf = <<>> /\ received = emitted)
    /\ (cpc = "recv" /\ txAlive /\ buf = <<>>) =>
          (~ENABLED CollectEnd /\ ~ENABLED CollectRecv)

C30_CollectNone ==
    /\ []C30_Inv
    /\ [][(cpc = "recv" /\ cpc' = "done") => (~txAlive /\ buf = <<>>)]_vars

C30_Witness ==
    /\ CollectedStream
    /\ emitted = <<Ok(<<>>), Ok(<<>>)>>
    /\ result = Some(<<>>)

(***************************************************************************)
(* ops.rs: Operation, OperationResult, OperationsHandler                   *)
(***************************************************************************)
MaxOps == 2

NoOp    == [tag |-> "NoOp"]
Unwound == <<"Unwound">>   \* no OperationResult: a panic left handle()
Panic   == <<"Panic">>

Bindings  == {"A", "B"}
LogLevels == {"Error", "Warn", "Info", "Log", "Debug", "Trace"}

StorageOps ==
    { [kind |-> "Get", key |-> "k"],
      [kind |-> "Put", key |-> "k", body |-> <<"o">>],
      [kind |-> "Head", key |-> "k"],
      [kind |-> "List", prefix |-> None, limit |-> None],
      [kind |-> "Delete", key |-> "k"] }
KvOps ==
    { [kind |-> "Get", key |-> "k"],
      [kind |-> "Put", key |-> "k", value |-> "v", expires_in |-> None],
      [kind |-> "Delete", key |-> "k"],
      [kind |-> "List", prefix |-> None, limit |-> None] }
DatabaseOps == { [kind |-> "Query", sql |-> "select 1", params |-> <<>>] }

Operation_Fetch(request) == [tag |-> "Fetch", request |-> request]
Operation_BindingFetch(binding, request) ==
    [tag |-> "BindingFetch", binding |-> binding, request |-> request]
Operation_BindingStorage(binding, op) ==
    [tag |-> "BindingStorage", binding |-> binding, op |-> op]
Operation_BindingKv(binding, op) ==
    [tag |-> "BindingKv", binding |-> binding, op |-> op]
Operation_BindingDatabase(binding, op) ==
    [tag |-> "BindingDatabase", binding |-> binding, op |-> op]
Operation_BindingWorker(binding, request) ==
    [tag |-> "BindingWorker", binding |-> binding, request |-> request]
Operation_Log(level, message) ==
    [tag |-> "Log", level |-> level, message |-> message]

Operations ==
    {Operation_Fetch(r) : r \in Requests}
    \cup {Operation_BindingFetch(b, HttpRequest("GET", "http://x/", RequestBodyNone)) :
            b \in Bindings}
    \cup {Operation_BindingStorage(b, o) : b \in Bindings, o \in StorageOps}
    \cup {Operation_BindingKv(b, o) : b \in Bindings, o \in KvOps}
    \cup {Operation_BindingDatabase(b, o) : b \in Bindings, o \in DatabaseOps}
    \cup {Operation_BindingWorker(b, HttpRequest("GET", "http://x/", RequestBodyNone)) :
            b \in Bindings}
    \cup {Operation_Log(l, "x") : l \in LogLevels}

StorageResult_Body(b)  == <<"Body", b>>
StorageResult_Error(m) == <<"Error", m>>
KvResult_Value(v)      == <<"Value", v>>
KvResult_Ok            == <<"Ok">>
KvResult_Error(m)      == <<"Error", m>>
DatabaseResult_Rows(r) == <<"Rows", r>>
DatabaseResult_Error(m) == <<"Error", m>>

OperationResult_Http(r)     == <<"Http", r>>
OperationResult_Storage(r)  == <<"Storage", r>>
OperationResult_Kv(r)       == <<"Kv", r>>
OperationResult_Database(r) == <<"Database", r>>
OperationResult_Ack         == <<"Ack">>

\* the default (stub) methods of the OperationsHandler trait
Default_handle_fetch(request) == Err("Fetch not available")
Default_handle_binding_fetch(binding, request) ==
    Err("Binding '" \o binding \o "' not configured")
Default_handle_binding_storage(binding, op) ==
    StorageResult_Error("Storage binding '" \o binding \o "' not implemented")
\* a KV stub that answers "no such key" instead of an error
Default_handle_binding_kv_missing(binding, op) == KvResult_Value(None)
Default_handle_binding_kv(binding, op) ==
    KvResult_Error("KV binding '" \o binding \o "' not implemented")
Default_handle_binding_database(binding, op) ==
    DatabaseResult_Error("Database binding '" \o binding \o "' not implemented")
Default_handle_binding_worker(binding, request) ==
    Err("Worker binding '" \o binding \o "' not implemented")
\* eprintln!("[{:?}] {}", level, message): the line written to stderr
Default_handle_log(level, message) == "[" \o level \o "] " \o message

\* the handlers: DefaultOps overrides nothing; Custom overrides every method
\* and answers as its environment decides, or panics
Handlers == {"DefaultOps", "Custom"}

HttpAnswers     == {Ok(HttpResponse(200, ResponseBodyNone)), Err("upstream"), Panic}
StorageAnswers  == {StorageResult_Body(Some(<<"o">>)), StorageResult_Error("denied"), Panic}
KvAnswers       == {KvResult_Value(Some("v")), KvResult_Ok, KvResult_Error("denied"), Panic}
DatabaseAnswers == {DatabaseResult_Rows("[]"), DatabaseResult_Error("denied"), Panic}
LogAnswers      == {<<"Unit">>, Panic}

\* a dispatch with the KV arm routed to the storage method
Dispatch_kvAsStorage(op) ==
    IF op.tag = "Fetch" THEN
        [method |-> "handle_fetch", binding |-> None, payload |-> op.request,
         wrap |-> "Http"]
    ELSE IF op.tag = "BindingFetch" THEN
        [method |-> "handle_binding_fetch", binding |-> Some(op.binding),
         payload |-> op.request, wrap |-> "Http"]
    ELSE IF op.tag \in {"BindingStorage", "BindingKv"} THEN
        [method |-> "handle_binding_storage", binding |-> Some(op.binding),
         payload |-> op.op, wrap |-> "Storage"]
    ELSE IF op.tag = "BindingDatabase" THEN
        [method |-> "handle_binding_database", binding |-> Some(op.binding),
         payload |-> op.op, wrap |-> "Database"]
    ELSE IF op.tag = "BindingWorker" THEN
        [method |-> "handle_binding_worker", binding |-> Some(op.binding),
         payload |-> op.request, wrap |-> "Http"]
    ELSE
        [method |-> "handle_log", binding |-> None,
         payload |-> [level |-> op.level, message |-> op.message],
         wrap |-> "Ack"]

\* the match of OperationsHandler::handle: the method an operation is routed
\* to, the arguments it is given and the variant its answer is wrapped in
Dispatch(op) ==
    IF op.tag = "Fetch" THEN
        [method |-> "handle_fetch", binding |-> None, payload |-> op.request,
         wrap |-> "Http"]
    ELSE IF op.tag = "BindingFetch" THEN
        [method |-> "handle_binding_fetch", binding |-> Some(op.binding),
         payload |-> op.request, wrap |-> "Http"]
    ELSE IF op.tag = "BindingStorage" THEN
        [method |-> "handle_binding_storage", binding |-> Some(op.binding),
         payload |-> op.op, wrap |-> "Storage"]
    ELSE IF op.tag = "BindingKv" THEN
        [method |-> "handle_binding_kv", binding |-> Some(op.binding),
         payload |-> op.op, wrap |-> "Kv"]
    ELSE IF op.tag = "BindingDatabase" THEN
        [method |-> "handle_binding_database", binding |-> Some(op.binding),
         payload |-> op.op, wrap |-> "Database"]
    ELSE IF op.tag = "BindingWorker" THEN
        [method |-> "handle_binding_worker", binding |-> Some(op.binding),
         payload |-> op.request, wrap |-> "Http"]
    ELSE
        [method |-> "handle_log", binding |-> None,
         payload |-> [level |-> op.level, message |-> op.message],
         wrap |-> "Ack"]

\* what the method `d.method` of handler h can answer for the call d
Answers(h, d) ==
    IF h = "DefaultOps" THEN
        IF d.method = "handle_fetch" THEN {Default_handle_fetch(d.payload)}
        ELSE IF d.method = "handle_binding_fetch"
            THEN {Default_handle_binding_fetch(d.binding[2], d.payload)}
        ELSE IF d.method = "handle_binding_storage"
            THEN {Default_handle_binding_storage(d.binding[2], d.payload)}
        ELSE IF d.method = "handle_binding_kv"
            THEN {Default_handle_binding_kv(d.binding[2], d.payload)}
        ELSE IF d.method = "handle_binding_database"
            THEN {Default_handle_binding_database(d.binding[2], d.payload)}
        ELSE IF d.method = "handle_binding_worker"
            THEN {Default_handle_binding_worker(d.binding[2], d.payload)}
        ELSE {<<"Unit">>}
    ELSE
        IF d.method \in {"handle_fetch", "handle_binding_fetch", "handle_binding_worker"}
            THEN HttpAnswers
        ELSE IF d.method = "handle_binding_storage" THEN StorageAnswers
        ELSE IF d.method = "handle_binding_kv" THEN KvAnswers
        ELSE IF d.method = "handle_binding_database" THEN DatabaseAnswers
        ELSE LogAnswers

\* OperationResult::<wrap>(answer)
Wrap(wrap, answer) ==
    IF wrap = "Ack" THEN OperationResult_Ack ELSE <<wrap, answer>>

\* OperationsHandler::handle(op) on handler h: the routed method runs and
\* its answer is wrapped.  A panic of the method unwinds through handle,
\* which has nothing that catches it, and the task's future with it.
Handle(h, op) ==
    /\ taskState = "running"
    /\ nOps < MaxOps
    /\ LET d == Dispatch(op) IN
       \E answer \in Answers(h, d) :
        /\ calls' = <<[method |-> d.method, binding |-> d.binding,
                       payload |-> d.payload,
                       outcome |-> IF answer = Panic THEN "panicked"
                                   ELSE "returned"]>>
        /\ opResult' = IF answer = Panic THEN Unwound
                       ELSE Wrap(d.wrap, answer)
        /\ taskState' = IF answer = Panic THEN "unwinding" ELSE taskState
        /\ stderr' = IF h = "DefaultOps" /\ d.method = "handle_log"
                       THEN Append(stderr,
                                   Default_handle_log(d.payload.level,
                                                      d.payload.message))
                       ELSE stderr
    /\ nOps' = nOps + 1
    /\ lastOp' = op
    /\ lastHandler' = h
    /\ UNCHANGED <<taskVars, streamVars, hostVars>>

OpsNext == \E h \in Handlers, op \in Operations : Handle(h, op)

InitOps ==
    /\ nOps = 0
    /\ lastOp = NoOp
    /\ lastHandler = "none"
    /\ calls = <<>>
    /\ opResult = <<"NoResult">>
    /\ stderr = <<>>
    /\ taskState = "running"

\* the dispatch table as the protocol states it
ExpectedMethod(tag) ==
    CASE tag = "Fetch"           -> "handle_fetch"
      [] tag = "BindingFetch"    -> "handle_binding_fetch"
      [] tag = "BindingStorage"  -> "handle_binding_storage"
      [] tag = "BindingKv"       -> "handle_binding_kv"
      [] tag = "BindingDatabase" -> "handle_binding_database"
      [] tag = "BindingWorker"   -> "handle_binding_worker"
      [] tag = "Log"             -> "handle_log"

ExpectedCategory(tag) ==
    CASE tag \in {"Fetch", "BindingFetch", "BindingWorker"} -> "Http"
      [] tag = "BindingStorage"  -> "Storage"
      [] tag = "BindingKv"       -> "Kv"
      [] tag = "BindingDatabase" -> "Database"
      [] tag = "Log"             -> "Ack"

ExpectedPayload(op) ==
    IF op.tag \in {"Fetch", "BindingFetch", "BindingWorker"} THEN op.request
    ELSE IF op.tag = "Log" THEN [level |-> op.level, message |-> op.message]
    ELSE op.op

\* C8: handle routes every Operation variant to exactly one handler method,
\* called once with the operation's binding name and payload unchanged, and
\* what it returns is of the variant's category: Http for Fetch, BindingFetch
\* and BindingWorker, Storage, Kv, Database for those bindings, Ack for Log.
C8_DispatchTable ==
    lastOp # NoOp =>
        /\ Len(calls) = 1
        /\ calls[1].method = ExpectedMethod(lastOp.tag)
        /\ calls[1].binding =
              IF lastOp.tag \in {"Fetch", "Log"} THEN None
              ELSE Some(lastOp.binding)
        /\ calls[1].payload = ExpectedPayload(lastOp)
        /\ opResult # Unwound => opResult[1] = ExpectedCategory(lastOp.tag)

C8_Witness ==
    /\ lastOp = Operation_BindingKv("B", [kind |-> "Get", key |-> "k"])
    /\ lastHandler = "Custom"
    /\ opResult = OperationResult_Kv(KvResult_Value(Some("v")))

\* C9: on DefaultOps every operation but Log returns an explicit error
\* payload, Fetch exactly Http(Err("Fetch not available")); Log returns Ack
\* and its message is the latest line of the default sink.
C9_DefaultsAreErrors ==
    (lastOp # NoOp /\ lastHandler = "DefaultOps") =>
        CASE lastOp.tag = "Fetch" ->
                opResult = <<"Http", <<"Err", "Fetch not available">>>>
          [] lastOp.tag \in {"BindingFetch", "BindingWorker"} ->
                opResult[1] = "Http" /\ opResult[2][1] = "Err"
          [] lastOp.tag = "BindingStorage" ->
                opResult[1] = "Storage" /\ opResult[2][1] = "Error"
          [] lastOp.tag = "BindingKv" ->
                opResult[1] = "Kv" /\ opResult[2][1] = "Error"
          [] lastOp.tag = "BindingDatabase" ->
                opResult[1] = "Database" /\ opResult[2][1] = "Error"
          [] lastOp.tag = "Log" ->
                /\ opResult = <<"Ack">>
                /\ stderr # <<>>
                /\ stderr[Len(stderr)] =
                      "[" \o lastOp.level \o "] " \o lastOp.message
                /\ (lastOp.level = "Info" /\ lastOp.message = "x")
                      => stderr[Len(stderr)] = "[Info] x"

C9_Witness ==
    /\ lastHandler = "DefaultOps"
    /\ lastOp = Operation_BindingKv("A", [kind |-> "Get", key |-> "k"])
    /\ opResult = <<"Kv", <<"Error", "KV binding 'A' not implemented">>>>
    /\ stderr = <<"[Info] x">>

IsFailureResult(r) ==
    \/ r[1] = "Http" /\ r[2][1] = "Err"
    \/ r[1] \in {"Storage", "Kv", "Database"} /\ r[2][1] = "Error"

\* C10: when a handler method panics while serving a dispatched operation,
\* handle returns a failure OperationResult and the task keeps running, so
\* that its later operations are dispatched.
C10_PanicIsCaught ==
    (calls # <<>> /\ calls[1].outcome = "panicked") =>
        /\ IsFailureResult(opResult)
        /\ taskState = "running"

(***************************************************************************)
(* termination.rs                                                          *)
(***************************************************************************)
NoReason == <<"NoReason">>

\* messages a variant may carry; two of them equal a fixed description
Messages ==
    {"", "boom", "ReferenceError: x is not defined", "isolate init failed",
     "Worker was aborted", "Worker exceeded CPU time limit"}

\* enum TerminationReason: <<variant>>, or <<variant, String>> for the
\* three variants that carry one
TerminationReasons ==
    {<<"CpuTimeLimit">>, <<"WallClockTimeout">>, <<"MemoryLimit">>,
     <<"Terminated">>, <<"Aborted">>}
    \cup {<<"Exception", m>> : m \in Messages}
    \cup {<<"InitializationError", m>> : m \in Messages}
    \cup {<<"Other", m>> : m \in Messages}

is_limit_exceeded(r) ==
    r[1] \in {"CpuTimeLimit", "WallClockTimeout", "MemoryLimit"}

is_js_error(r) == r[1] = "Exception"

is_runtime_error_withoutAborted(r) ==
    r[1] \in {"InitializationError", "Terminated", "Other"}

is_runtime_error(r) ==
    r[1] \in {"InitializationError", "Terminated", "Aborted", "Other"}

description_fixedForException(r) ==
    CASE r[1] = "CpuTimeLimit"        -> "Worker exceeded CPU time limit"
      [] r[1] = "WallClockTimeout"    -> "Worker exceeded wall-clock time limit"
      [] r[1] = "MemoryLimit"         -> "Worker exceeded memory limit"
      [] r[1] = "Exception"           -> "Worker threw an exception"
      [] r[1] = "InitializationError" -> r[2]
      [] r[1] = "Terminated"          -> "Worker was terminated"
      [] r[1] = "Aborted"             -> "Worker was aborted"
      [] r[1] = "Other"               -> r[2]

description(r) ==
    CASE r[1] = "CpuTimeLimit"        -> "Worker exceeded CPU time limit"
      [] r[1] = "WallClockTimeout"    -> "Worker exceeded wall-clock time limit"
      [] r[1] = "MemoryLimit"         -> "Worker exceeded memory limit"
      [] r[1] = "Exception"           -> r[2]
      [] r[1] = "InitializationError" -> r[2]
      [] r[1] = "Terminated"          -> "Worker was terminated"
      [] r[1] = "Aborted"             -> "Worker was aborted"
      [] r[1] = "Other"               -> r[2]

http_status_timeoutAs429(r) ==
    CASE r[1] \in {"CpuTimeLimit", "MemoryLimit", "WallClockTimeout"} -> 429
      [] r[1] \in {"Exception", "InitializationError", "Other"} -> 500
      [] r[1] \in {"Terminated", "Aborted"}                     -> 503

http_status(r) ==
    CASE r[1] \in {"CpuTimeLimit", "MemoryLimit"}               -> 429
      [] r[1] = "WallClockTimeout"                              -> 504
      [] r[1] \in {"Exception", "InitializationError", "Other"} -> 500
      [] r[1] \in {"Terminated", "Aborted"}                     -> 503

\* an execution has ended with reason r
Terminate(r) ==
    /\ reason = NoReason
    /\ reason' = r
    /\ UNCHANGED <<statusCode, class, descr, taskVars, streamVars, opsVars,
                   methodVars, busVars, workerVars, restVars>>

Call_http_status ==
    /\ reason # NoReason
    /\ statusCode = None
    /\ statusCode' = Some(http_status(reason))
    /\ UNCHANGED <<reason, class, descr, taskVars, streamVars, opsVars,
                   methodVars, busVars, workerVars, restVars>>

Call_category ==
    /\ reason # NoReason
    /\ class = None
    /\ class' = Some([limit   |-> is_limit_exceeded(reason),
                      js      |-> is_js_error(reason),
                      runtime |-> is_runtime_error(reason)])
    /\ UNCHANGED <<reason, statusCode, descr, taskVars, streamVars, opsVars,
                   methodVars, busVars, workerVars, restVars>>

Call_description ==
    /\ reason # NoReason
    /\ descr = None
    /\ descr' = Some(description(reason))
    /\ UNCHANGED <<reason, statusCode, class, taskVars, streamVars, opsVars,
                   methodVars, busVars, workerVars, restVars>>

TermNext ==
    \/ \E r \in TerminationReasons : Terminate(r)
    \/ Call_http_status
    \/ Call_category
    \/ Call_description

InitTerm ==
    /\ reason = NoReason
    /\ statusCode = None
    /\ class = None
    /\ descr = None

\* C11: http_status follows one fixed table over the variant alone, whatever
\* message the variant carries: CpuTimeLimit and MemoryLimit give 429,
\* WallClockTimeout 504, Exception, InitializationError and Other 500,
\* Terminated and Aborted 503.
StatusTable ==
    [CpuTimeLimit |-> 429, MemoryLimit |-> 429, WallClockTimeout |-> 504,
     Exception |-> 500, InitializationError |-> 500, Other |-> 500,
     Terminated |-> 503, Aborted |-> 503]

C11_StatusTable ==
    statusCode # None =>
        /\ reason[1] \in DOMAIN StatusTable
        /\ statusCode[2] = StatusTable[reason[1]]
        /\ \A r \in TerminationReasons :
               r[1] = reason[1] => http_status(r) = statusCode[2]

C11_Witness ==
    /\ reason = <<"WallClockTimeout">>
    /\ statusCode = Some(504)

\* C12: the three category predicates partition the variants: exactly one of
\* them holds of any reason; the limit category is CpuTimeLimit,
\* WallClockTimeout, MemoryLimit; the script-fault category is Exception; the
\* host-fault category is InitializationError, Terminated, Aborted, Other.
C12_Partition ==
    class # None =>
        LET c == class[2] IN
        /\ Cardinality({f \in {"limit", "js", "runtime"} : c[f]}) = 1
        /\ c.limit   <=> reason[1] \in {"CpuTimeLimit", "WallClockTimeout",
                                         "MemoryLimit"}
        /\ c.js      <=> reason[1] = "Exception"
        /\ c.runtime <=> reason[1] \in {"InitializationError", "Terminated",
                                         "Aborted", "Other"}

C12_Witness ==
    /\ reason = <<"Aborted">>
    /\ class # None
    /\ class[2].runtime

\* C13 as stated: description gives back the carried message only for
\* Exception; for every other variant, InitializationError and Other
\* included, it is one fixed string whatever message is carried.
C13_Original ==
    descr # None =>
        IF reason[1] = "Exception"
        THEN descr[2] = reason[2]
        ELSE \A r \in TerminationReasons :
                 r[1] = reason[1] => description(r) = descr[2]

FixedDescription ==
    [CpuTimeLimit     |-> "Worker exceeded CPU time limit",
     WallClockTimeout |-> "Worker exceeded wall-clock time limit",
     MemoryLimit      |-> "Worker exceeded memory limit",
     Terminated       |-> "Worker was terminated",
     Aborted          |-> "Worker was aborted"]

\* C13: description gives back the carried message verbatim for the three
\* variants that carry one (Exception, InitializationError, Other) and a
\* fixed string for each of the five that carry none.
C13_Description ==
    descr # None =>
        IF reason[1] \in {"Exception", "InitializationError", "Other"}
        THEN descr[2] = reason[2]
        ELSE /\ Len(reason) = 1
             /\ descr[2] = FixedDescription[reason[1]]

C13_Witness ==
    /\ reason = <<"InitializationError", "isolate init failed">>
    /\ descr = Some("isolate init failed")

(***************************************************************************)
(* http.rs: HttpMethod                                                     *)
(***************************************************************************)
\* A string is a sequence of chars.  An ASCII char is written as itself; the
\* two non-ASCII chars of the model are written by their code points:
\* "U+017F" LATIN SMALL LETTER LONG S and "U+0131" LATIN SMALL LETTER
\* DOTLESS I.
HttpMethods == {"Get", "Post", "Put", "Delete", "Patch", "Head", "Options"}

HttpMethod_as_str(m) ==
    CASE m = "Get"     -> <<"G", "E", "T">>
      [] m = "Post"    -> <<"P", "O", "S", "T">>
      [] m = "Put"     -> <<"P", "U", "T">>
      [] m = "Delete"  -> <<"D", "E", "L", "E", "T", "E">>
      [] m = "Patch"   -> <<"P", "A", "T", "C", "H">>
      [] m = "Head"    -> <<"H", "E", "A", "D">>
      [] m = "Options" -> <<"O", "P", "T", "I", "O", "N", "S">>

AsciiLower ==
    <<"a", "b", "c", "d", "e", "f", "g", "h", "i", "j", "k", "l", "m",
      "n", "o", "p", "q", "r", "s", "t", "u", "v", "w", "x", "y", "z">>
AsciiUpper ==
    <<"A", "B", "C", "D", "E", "F", "G", "H", "I", "J", "K", "L", "M",
      "N", "O", "P", "Q", "R", "S", "T", "U", "V", "W", "X", "Y", "Z">>

\* u8::to_ascii_uppercase on one char: only a..z change
to_ascii_uppercase(c) ==
    IF \E i \in 1..26 : AsciiLower[i] = c
    THEN AsciiUpper[CHOOSE i \in 1..26 : AsciiLower[i] = c]
    ELSE c

\* str::to_uppercase: the Unicode uppercase mapping, char by char.  Long s
\* maps to "S" and dotless i to "I"; every other char of the model maps as
\* in ASCII.
to_uppercase(str) ==
    [i \in 1..Len(str) |->
        CASE str[i] = "U+017F" -> "S"
          [] str[i] = "U+0131" -> "I"
          [] OTHER             -> to_ascii_uppercase(str[i])]

\* impl FromStr for HttpMethod
HttpMethod_from_str(str) ==
    LET u == to_uppercase(str) IN
    CASE u = <<"G", "E", "T">>                          -> Ok("Get")
      [] u = <<"P", "O", "S", "T">>                     -> Ok("Post")
      [] u = <<"P", "U", "T">>                          -> Ok("Put")
      [] u = <<"D", "E", "L", "E", "T", "E">>           -> Ok("Delete")
      [] u = <<"P", "A", "T", "C", "H">>                -> Ok("Patch")
      [] u = <<"H", "E", "A", "D">>                     -> Ok("Head")
      [] u = <<"O", "P", "T", "I", "O", "N", "S">>      -> Ok("Options")
      [] OTHER                                          -> Err(<<>>)

\* every spelling of the word w in which each letter is written in upper
\* case, in lower case, or as a non-ASCII char whose uppercase it is
RECURSIVE Spellings(_)
Spellings(w) ==
    IF w = <<>> THEN {<<>>}
    ELSE LET c == Head(w)
             low == AsciiLower[CHOOSE i \in 1..26 : AsciiUpper[i] = c]
             cs == {c, low}
                   \cup (IF c = "S" THEN {"U+017F"} ELSE {})
                   \cup (IF c = "I" THEN {"U+0131"} ELSE {})
         IN {<<x>> \o rest : x \in cs, rest \in Spellings(Tail(w))}

\* the strings handed to from_str: all spellings of the seven verbs and of
\* TRACE and CONNECT, the empty string, verbs with surrounding whitespace,
\* and a verb cut short or extended
MethodInputs ==
    LET verbs == {HttpMethod_as_str(m) : m \in HttpMethods}
        get   == <<"G", "E", "T">>
    IN UNION {Spellings(v) : v \in verbs}
       \cup Spellings(<<"T", "R", "A", "C", "E">>)
       \cup Spellings(<<"C", "O", "N", "N", "E", "C", "T">>)
       \cup {<<>>, <<"G", "E">>, get \o <<"S">>, <<" ">>, <<"1">>}
       \cup UNION {{<<" ">> \o v, v \o <<" ">>, <<" ">> \o v \o <<" ">>,
                    v \o <<"\n">>} : v \in verbs}

\* s.parse::<HttpMethod>()
Parse(str) ==
    /\ methodStr = None
    /\ methodStr' = str
    /\ parsed' = Some(HttpMethod_from_str(str))
    /\ UNCHANGED <<taskVars, streamVars, opsVars, termVars, busVars,
                   workerVars, restVars>>

MethodNext == \E str \in MethodInputs : Parse(str)

InitMethod ==
    /\ methodStr = None
    /\ parsed = None

\* the strings that equal a verb when ASCII letter case is ignored
eq_ignore_ascii_case(a, b) ==
    /\ Len(a) = Len(b)
    /\ \A i \in 1..Len(a) : to_ascii_uppercase(a[i]) = to_ascii_uppercase(b[i])

\* C14: parsing an HttpMethod succeeds exactly for the strings that equal,
\* letter case ignored, one of GET, POST, PUT, DELETE, PATCH, HEAD, OPTIONS,
\* and gives that method; every other string gives the error, never a
\* default method.
C14_ParseExactly ==
    parsed # None =>
        LET ms == {m \in HttpMethods :
                      eq_ignore_ascii_case(methodStr, HttpMethod_as_str(m))}
        IN IF ms # {}
           THEN \E m \in ms : parsed[2] = Ok(m)
           ELSE parsed[2] = Err(<<>>)

(***************************************************************************)
(* limits.rs: BindingLimit, and ops.rs: concurrent dispatches of one task  *)
(***************************************************************************)
MaxCalls      == 3
MaxTotal      == 2
MaxConcurrent == 2

BindingLimit_new(max_total, max_concurrent) ==
    [max_total |-> max_total, max_concurrent |-> max_concurrent]

BindingLimit_unlimited == [max_total |-> 0, max_concurrent |-> 0]

KvGet == Operation_BindingKv("A", [kind |-> "Get", key |-> "k"])

\* RuntimeLimits { kv_limit: BindingLimit::new(t, c), ..Default::default() }
Configure(t, c) ==
    /\ kvLimit = None
    /\ kvLimit' = Some(BindingLimit_new(t, c))
    /\ UNCHANGED <<kvCalls, taskVars, streamVars, opsVars, termVars,
                   methodVars, workerVars, restVars>>

\* RuntimeLimits { kv_limit: BindingLimit::unlimited(), ..Default::default() }
ConfigureUnlimited ==
    /\ kvLimit = None
    /\ kvLimit' = Some(BindingLimit_unlimited)
    /\ UNCHANGED <<kvCalls, taskVars, streamVars, opsVars, termVars,
                   methodVars, workerVars, restVars>>

\* the future of handler.handle(BindingKv{Get}) is polled: the match arm
\* calls the routed method at once.  Calls are issued in the order 1, 2, ..
\* and an earlier one may still be awaiting its method.  Nothing in handle
\* reads a BindingLimit.
HandleStart(i, h) ==
    /\ kvLimit # None
    /\ kvCalls[i].st = "new"
    /\ \A j \in 1..(i - 1) : kvCalls[j].st # "new"
    /\ kvCalls' = [kvCalls EXCEPT ![i] =
                       [st |-> "running", handler |-> h,
                        method |-> Dispatch(KvGet).method, result |-> None]]
    /\ UNCHANGED <<kvLimit, taskVars, streamVars, opsVars, termVars,
                   methodVars, workerVars, restVars>>

\* the routed method's future resolves and handle wraps its answer
HandleReturn(i) ==
    /\ kvCalls[i].st = "running"
    /\ LET d == Dispatch(KvGet) IN
       \E answer \in Answers(kvCalls[i].handler, d) \ {Panic} :
           kvCalls' = [kvCalls EXCEPT ![i].st = "done",
                                      ![i].result = Some(Wrap(d.wrap, answer))]
    /\ UNCHANGED <<kvLimit, taskVars, streamVars, opsVars, termVars,
                   methodVars, workerVars, restVars>>

BusNext ==
    \/ \E t \in 0..MaxTotal, c \in 0..MaxConcurrent :
           t + c > 0 /\ Configure(t, c)
    \/ ConfigureUnlimited
    \/ \E i \in 1..MaxCalls, h \in Handlers : HandleStart(i, h)
    \/ \E i \in 1..MaxCalls : HandleReturn(i)

InitBus ==
    /\ kvLimit = None
    /\ kvCalls = [i \in 1..MaxCalls |->
                     [st |-> "new", handler |-> "none", method |-> "none",
                      result |-> None]]

\* calls whose routed method has been entered, and those still in it
Reached  == {i \in 1..MaxCalls : kvCalls[i].st # "new"}
InFlight == {i \in 1..MaxCalls : kvCalls[i].st = "running"}

\* C15: with max_total = n > 0 configured for KV, the calls after the n-th
\* never reach the handler: each of them is answered with an explicit
\* over-quota KV Error instead.  (With max_total 2 and max_concurrent 1 the
\* third of three Get calls is the rejected one.)
C15_OverQuotaRejected ==
    (kvLimit # None /\ kvLimit[2].max_total > 0) =>
        \A i \in 1..MaxCalls :
            i > kvLimit[2].max_total =>
                /\ kvCalls[i].method # "handle_binding_kv"
                /\ kvCalls[i].st = "done" =>
                       /\ kvCalls[i].result[2][1] = "Kv"
                       /\ kvCalls[i].result[2][2][1] = "Error"

\* C16: with max_concurrent = c > 0 no more than c calls of the capability
\* are in flight at once, and with max_total = n > 0 no more than n calls
\* are ever counted in.
C16_CountersBounded ==
    kvLimit # None =>
        /\ kvLimit[2].max_concurrent > 0 =>
               Cardinality(InFlight) <= kvLimit[2].max_concurrent
        /\ kvLimit[2].max_total > 0 =>
               Cardinality(Reached) <= kvLimit[2].max_total

(***************************************************************************)
(* worker.rs: the Worker trait.  The trait has no implementation in this   *)
(* crate; what exec and abort do to a task is taken from the documented    *)
(* contract of the trait and of the crate's conformance tests.             *)
(***************************************************************************)
MaxTasks == 2
Workers  == {"w1", "w2"}

\* reasons an exec may end with when abort() was not called: some of each
\* category
ExecReasons ==
    {<<"CpuTimeLimit">>, <<"WallClockTimeout">>, <<"Exception", "boom">>,
     <<"Terminated">>, <<"Other", "boom">>}

\* exec(&mut self, ..): the returned future borrows the instance exclusively
ExclusiveBorrow_shared(w) == TRUE
ExclusiveBorrow(w) == workers[w].st = "idle"

\* an instance is used again only if it was never aborted and none of its
\* executions ended with a limit or host fault
Usable_always(w) == TRUE
Usable(w) == workers[w].valid /\ ~workers[w].aborted

\* how exec settles the task's completion sender before it returns Ok
OkCompletion_drop == "drop"
OkCompletion == "send"

\* how exec settles the task's completion sender before it returns Err
FaultCompletion_mayKeep == {"send", "drop", "keep"}
FaultCompletion == {"send", "drop"}

Settled(tk, how, resp) ==
    IF how = "send" THEN [tk EXCEPT !.tx = "sent", !.slot = Some(resp)]
    ELSE IF how = "drop" THEN [tk EXCEPT !.tx = "dropped"]
    ELSE tk

\* let (task, rx) = Task::fetch(request); worker.exec(task)
Exec(w, t) ==
    /\ ExclusiveBorrow(w)
    /\ Usable(w)
    /\ tasks[t].tx = "unbuilt"
    /\ \A j \in 1..(t - 1) : tasks[j].tx # "unbuilt"
    /\ tasks' = [tasks EXCEPT ![t].by = w, ![t].tx = "held"]
    /\ workers' = [workers EXCEPT ![w].st = "running", ![w].cur = t]
    /\ UNCHANGED <<taskVars, streamVars, opsVars, termVars, methodVars,
                   busVars, restVars>>

\* exec resolves to Ok(()): the handler has responded; the n-th task served
\* by an instance is answered "Request n"
ReturnOk(w) ==
    /\ workers[w].st = "running"
    /\ ~workers[w].aborted
    /\ LET t == workers[w].cur
           resp == HttpResponse(200, ResponseBodyBytes(
                       <<"Request", workers[w].served + 1>>))
       IN tasks' = [tasks EXCEPT
                       ![t] = [Settled(@, OkCompletion, resp)
                                   EXCEPT !.ret = Some(Ok(<<>>))]]
    /\ workers' = [workers EXCEPT ![w].st = "idle", ![w].cur = 0,
                                  ![w].served = @ + 1]
    /\ UNCHANGED <<taskVars, streamVars, opsVars, termVars, methodVars,
                   busVars, restVars>>

\* exec resolves to Err(r).  After abort() the reason is Aborted.  The task's
\* sender is answered with the failure response or goes out of scope.
ReturnErr(w, r, how) ==
    /\ workers[w].st = "running"
    /\ IF workers[w].aborted THEN r = <<"Aborted">> ELSE r \in ExecReasons
    /\ LET t == workers[w].cur
           resp == HttpResponse(http_status(r), ResponseBodyNone)
       IN tasks' = [tasks EXCEPT
                       ![t] = [Settled(@, how, resp)
                                   EXCEPT !.ret = Some(Err(r))]]
    /\ workers' = [workers EXCEPT ![w].st = "idle", ![w].cur = 0,
                                  ![w].valid = @ /\ is_js_error(r)]
    /\ UNCHANGED <<taskVars, streamVars, opsVars, termVars, methodVars,
                   busVars, restVars>>

\* abort(): asks the instance to stop; from then on a running exec can only
\* end as aborted
Abort(w) ==
    /\ ~workers[w].aborted
    /\ workers' = [workers EXCEPT ![w].aborted = TRUE]
    /\ UNCHANGED <<tasks, taskVars, streamVars, opsVars, termVars,
                   methodVars, busVars,
                   restVars>>

\* rx.await on the task's receiver
AwaitRx(t) ==
    /\ tasks[t].seen = None
    /\ tasks[t].tx \in {"sent", "dropped"}
    /\ tasks' = [tasks EXCEPT ![t].seen =
                    Some(IF tasks[t].tx = "sent" THEN Ok(tasks[t].slot[2])
                         ELSE RecvError)]
    /\ UNCHANGED <<workers, taskVars, streamVars, opsVars, termVars,
                   methodVars, busVars,
                   restVars>>

AbortedReturn(w) ==
    \E how \in FaultCompletion : ReturnErr(w, <<"Aborted">>, how)

WorkerNext ==
    \/ \E w \in Workers, t \in 1..MaxTasks : Exec(w, t)
    \/ \E w \in Workers : ReturnOk(w)
    \/ \E w \in Workers, r \in ExecReasons \cup {<<"Aborted">>},
          how \in FaultCompletion : ReturnErr(w, r, how)
    \/ \E w \in Workers : Abort(w)
    \/ \E t \in 1..MaxTasks : AwaitRx(t)

InitWorker ==
    /\ workers = [w \in Workers |->
                     [st |-> "idle", cur |-> 0, served |-> 0,
                      aborted |-> FALSE, valid |-> TRUE]]
    /\ tasks = [t \in 1..MaxTasks |->
                   [by |-> "none", tx |-> "unbuilt", slot |-> None,
                    ret |-> None, seen |-> None]]

\* tasks handed to instance w whose exec has not returned
Executing(w) == {t \in 1..MaxTasks : tasks[t].by = w /\ tasks[t].ret = None}

C18_OkMeansSent ==
    \A t \in 1..MaxTasks :
        /\ tasks[t].ret = Some(Ok(<<>>)) =>
               /\ tasks[t].tx = "sent"
               /\ tasks[t].slot # None
               /\ tasks[t].seen = None => ENABLED AwaitRx(t)
               /\ tasks[t].seen # None => tasks[t].seen[2] = Ok(tasks[t].slot[2])
        /\ tasks[t].ret # None => tasks[t].tx \in {"sent", "dropped"}

C18_Witness ==
    \E t \in 1..MaxTasks :
        /\ tasks[t].ret = Some(Ok(<<>>))
        /\ tasks[t].seen # None
        /\ tasks[t].seen[2][1] = "Ok"

\* AnsweredWith(t, n): the receiver of task t resolved with "Request n"
AnsweredWith(t, n) ==
    /\ tasks[t].seen # None
    /\ tasks[t].seen[2][1] = "Ok"
    /\ tasks[t].seen[2][2] =
           HttpResponse(200, ResponseBodyBytes(<<"Request", n>>))

\* C19: an instance never has two executions in flight: a second exec on it
\* starts only after the previous one has returned.  The tasks it serves one
\* after another are each answered on their own receiver: the n-th task an
\* instance answers receives "Request n".
C19_OneAtATime ==
    /\ \A w \in Workers :
           /\ Cardinality(Executing(w)) <= 1
           /\ Executing(w) =
                  IF workers[w].st = "running" THEN {workers[w].cur} ELSE {}
    /\ \A t \in 1..MaxTasks :
           (tasks[t].seen # None /\ tasks[t].ret = Some(Ok(<<>>))) =>
               AnsweredWith(t, Cardinality({u \in 1..t :
                                               /\ tasks[u].by = tasks[t].by
                                               /\ tasks[u].ret = Some(Ok(<<>>))}))

C19_Witness ==
    /\ tasks[1].by = "w1"
    /\ tasks[2].by = "w1"
    /\ AnsweredWith(1, 1)
    /\ AnsweredWith(2, 2)

\* an exec of instance w that ended with a limit or host fault
Faulted(w) ==
    \E u \in 1..MaxTasks :
        /\ tasks[u].by = w
        /\ tasks[u].ret # None
        /\ tasks[u].ret[2][1] = "Err"
        /\ ~is_js_error(tasks[u].ret[2][2])

\* C20: no task starts on an instance after one of its executions ended
\* with a limit-exceeded or host-fault reason, or after abort() was called
\* on it; an instance whose executions ended only with Ok or Exception can
\* take the next task.
C20_NoReuse ==
    /\ [][\A w \in Workers : \A t \in 1..MaxTasks :
             (tasks[t].by = "none" /\ tasks'[t].by = w) =>
                 (~workers[w].aborted /\ ~Faulted(w))]_vars
    /\ [](\A w \in Workers : \A t \in 1..MaxTasks :
             (/\ workers[w].st = "idle"
              /\ ~workers[w].aborted
              /\ ~Faulted(w)
              /\ tasks[t].tx = "unbuilt"
              /\ \A j \in 1..(t - 1) : tasks[j].tx # "unbuilt")
             => ENABLED Exec(w, t))

C20_Witness ==
    /\ tasks[1].by = "w1"
    /\ tasks[1].ret = Some(Err(<<"Exception", "boom">>))
    /\ tasks[2].by = "w1"
    /\ tasks[2].tx = "held"

(***************************************************************************)
(* http.rs: HttpRequest / HttpResponse conversions and header collections  *)
(***************************************************************************)
MaxHeaders == 2

HttpMethod_default_post == "Post"
HttpMethod_default == "Get"

\* the lowercase form of a header name (HeaderName is stored in lowercase)
lower_name(n) ==
    CASE n = "Content-Type" -> "content-type"
      [] n = "Host"         -> "host"
      [] n = "Set-Cookie"   -> "set-cookie"
      [] OTHER              -> n

\* header values; "U+00FF" stands for a value HeaderValue::to_str rejects
WireNames       == {"host", "content-type"}
WireValues      == {"a", "U+00FF"}
LiteralNames    == {"Content-Type", "content-type"}
ResponseNames   == {"Set-Cookie", "x-a", "bad name"}
ResponseValues  == {"a", "b"}

\* sequences of at most MaxHeaders (name, value) pairs
PairLists(names, values) ==
    UNION {[1..n -> names \X values] : n \in 0..MaxHeaders}

\* the method of an inbound request, as Method::as_str gives it
InboundMethods ==
    {<<"G", "E", "T">>, <<"D", "E", "L", "E", "T", "E">>,
     <<"p", "o", "s", "t">>, <<"T", "R", "A", "C", "E">>,
     <<"C", "O", "N", "N", "E", "C", "T">>}

InboundBodies == {<<>>, <<"o">>}

\* HashMap<String, String>: a function from the stored keys to their values
HashMap_insert(m, k, v) ==
    [x \in DOMAIN m \cup {k} |-> IF x = k THEN v ELSE m[x]]

HashMap_get(m, k) == IF k \in DOMAIN m THEN Some(m[k]) ELSE None

\* for (key, value) in headers { if let Ok(s) = value.to_str() { insert } }
RECURSIVE CollectHeaders(_, _)
CollectHeaders(m, pairs) ==
    IF pairs = <<>> THEN m
    ELSE LET p == Head(pairs) IN
         CollectHeaders(IF p[2] # "U+00FF"
                        THEN HashMap_insert(m, p[1], p[2]) ELSE m,
                        Tail(pairs))

\* headers.get("host").and_then(|h| h.to_str().ok()).unwrap_or("localhost")
HostOf(pairs) ==
    LET hs == SelectSeq(pairs, LAMBDA p : p[1] = "host") IN
    IF hs # <<>> /\ hs[1][2] # "U+00FF" THEN hs[1][2] ELSE "localhost"

\* the HttpRequest both inbound conversions build
HttpRequest_from_parts(methodText, host, pairs, bytes) ==
    LET r == HttpMethod_from_str(methodText) IN
    [method  |-> IF r[1] = "Ok" THEN r[2] ELSE HttpMethod_default,
     url     |-> <<"http", host, "/">>,
     headers |-> CollectHeaders(<<>>, pairs),
     body    |-> IF bytes = <<>> THEN RequestBodyNone
                 ELSE RequestBodyBytes(bytes)]

HttpRequest_from_actix(methodText, pairs, bytes) ==
    /\ conv.op = "none"
    /\ conv' = [op |-> "from_actix", method |-> methodText, pairs |-> pairs,
                bytes |-> bytes,
                out |-> HttpRequest_from_parts(methodText, "conn", pairs, bytes)]
    /\ UNCHANGED <<lookup, priorVars, logVars, limitVars>>

HttpRequest_from_hyper_parts(methodText, pairs, bytes) ==
    /\ conv.op = "none"
    /\ conv' = [op |-> "from_hyper_parts", method |-> methodText,
                pairs |-> pairs, bytes |-> bytes,
                out |-> HttpRequest_from_parts(methodText, HostOf(pairs),
                                               pairs, bytes)]
    /\ UNCHANGED <<lookup, priorVars, logVars, limitVars>>

\* let mut headers = HashMap::new(); headers.insert(..); HttpRequest { .. }
HttpRequest_literal(pairs) ==
    /\ conv.op = "none"
    /\ conv' = [op |-> "literal", method |-> <<"P", "O", "S", "T">>,
                pairs |-> pairs, bytes |-> <<"o">>,
                out |-> [method |-> "Post",
                         url |-> <<"http", "localhost", "/">>,
                         headers |-> CollectHeaders(<<>>, pairs),
                         body |-> RequestBodyBytes(<<"o">>)]]
    /\ UNCHANGED <<lookup, priorVars, logVars, limitVars>>

\* request.headers.get(k)
HeaderLookup(k) ==
    /\ conv.op # "none"
    /\ conv.op \in {"from_actix", "from_hyper_parts", "literal"}
    /\ lookup.key = ""
    /\ lookup' = [key |-> k, result |-> HashMap_get(conv.out.headers, k)]
    /\ UNCHANGED <<conv, priorVars, logVars, limitVars>>

\* a pair the transport's header types accept: "bad name" is no token
ValidPair(p) == p[1] # "bad name"

LowerPairs(pairs) ==
    [i \in 1..Len(pairs) |-> <<lower_name(pairs[i][1]), pairs[i][2]>>]

\* iteration of an http::HeaderMap filled by append: names in the order of
\* their first insertion, the values of one name together in insertion order
RECURSIVE HeaderMapIter(_)
HeaderMapIter(pairs) ==
    IF pairs = <<>> THEN <<>>
    ELSE LET n == Head(pairs)[1] IN
         SelectSeq(pairs, LAMBDA p : p[1] = n)
         \o HeaderMapIter(SelectSeq(pairs, LAMBDA p : p[1] # n))

\* actix HeaderMap filled by insert: the latest value of each name
RECURSIVE InsertedLast(_)
InsertedLast(pairs) ==
    IF pairs = <<>> THEN <<>>
    ELSE LET n == pairs[Len(pairs)][1] IN
         InsertedLast(SelectSeq(pairs, LAMBDA p : p[1] # n))
         \o <<pairs[Len(pairs)]>>

\* the orders in which a hash map may be iterated
IterationOrders(q) ==
    {[i \in 1..Len(q) |-> q[f[i]]] :
        f \in {g \in [1..Len(q) -> 1..Len(q)] :
                  \A i, j \in 1..Len(q) : i # j => g[i] # g[j]}}

\* into_hyper_with_disconnect, status and headers: builder.header for each
\* pair; a pair the builder rejects makes body() fail and the fallback
\* response is returned
HttpResponse_into_hyper(pairs) ==
    /\ conv.op = "none"
    /\ conv' = [op |-> "into_hyper", pairs |-> pairs,
                out |-> IF \A i \in 1..Len(pairs) : ValidPair(pairs[i])
                        THEN [status |-> 200,
                              headers |-> HeaderMapIter(LowerPairs(pairs))]
                        ELSE [status |-> 500, headers |-> <<>>]]
    /\ UNCHANGED <<lookup, priorVars, logVars, limitVars>>

\* From<HttpResponse> for actix_web::HttpResponse, status and headers:
\* builder.insert_header for each pair (valid pairs only)
HttpResponse_into_actix(pairs) ==
    /\ conv.op = "none"
    /\ \A i \in 1..Len(pairs) : ValidPair(pairs[i])
    /\ \E hs \in IterationOrders(InsertedLast(LowerPairs(pairs))) :
           conv' = [op |-> "into_actix", pairs |-> pairs,
                    out |-> [status |-> 200, headers |-> hs]]
    /\ UNCHANGED <<lookup, priorVars, logVars, limitVars>>

ConvNext ==
    \/ \E m \in InboundMethods, ps \in PairLists(WireNames, WireValues),
          b \in InboundBodies : HttpRequest_from_actix(m, ps, b)
    \/ \E m \in InboundMethods, ps \in PairLists(WireNames, WireValues),
          b \in InboundBodies : HttpRequest_from_hyper_parts(m, ps, b)
    \/ \E ps \in PairLists(LiteralNames, {"a", "b"}) : HttpRequest_literal(ps)
    \/ \E k \in LiteralNames \cup WireNames \cup {"Host"} : HeaderLookup(k)
    \/ \E ps \in PairLists(ResponseNames, ResponseValues) :
          HttpResponse_into_hyper(ps)
    \/ \E ps \in PairLists(ResponseNames, ResponseValues) :
          HttpResponse_into_actix(ps)

InitConv ==
    /\ conv = [op |-> "none"]
    /\ lookup = [key |-> "", result |-> None]

IsRequestConv == conv.op # "none" /\ conv.op \in {"from_actix", "from_hyper_parts",
                                             "literal"}
IsResponseConv == conv.op # "none" /\ conv.op \in {"into_hyper", "into_actix"}

\* C23: the header mapping of an HttpRequest never holds two keys that
\* differ only in letter case, and a lookup with any casing of a stored key
\* finds the value stored under it.
C23_HeadersCaseInsensitive ==
    IsRequestConv =>
        LET h == conv.out.headers IN
        /\ \A k1, k2 \in DOMAIN h : lower_name(k1) = lower_name(k2) => k1 = k2
        /\ lookup.key # "" =>
               \A k \in DOMAIN h :
                   lower_name(k) = lower_name(lookup.key) =>
                       lookup.result = Some(h[k])

\* C24: the transport response carries every (name, value) pair of the
\* HttpResponse, pairs of one name included, in the same relative order:
\* none dropped, none replaced.  (Names are compared in lowercase.)
C24_HeaderPairsPreserved ==
    IsResponseConv => conv.out.headers = LowerPairs(conv.pairs)

\* C29: from_actix and from_hyper_parts return a request for every input:
\* the method is the inbound verb when it is one of the seven and GET
\* otherwise, an empty inbound body gives RequestBody::None and a non-empty
\* one RequestBody::Bytes with the same bytes.
C29_InboundNeverFails ==
    /\ conv.op = "none" =>
           \A m \in InboundMethods, ps \in PairLists(WireNames, WireValues),
              b \in InboundBodies :
               /\ ENABLED HttpRequest_from_actix(m, ps, b)
               /\ ENABLED HttpRequest_from_hyper_parts(m, ps, b)
    /\ (conv.op # "none" /\ conv.op \in {"from_actix", "from_hyper_parts"}) =>
           LET ms == {m \in HttpMethods :
                         eq_ignore_ascii_case(conv.method, HttpMethod_as_str(m))}
           IN /\ IF ms = {} THEN conv.out.method = "Get"
                 ELSE conv.out.method \in ms
              /\ conv.out.body = IF conv.bytes = <<>> THEN RequestBodyNone
                                 ELSE RequestBodyBytes(conv.bytes)

C29_Witness ==
    /\ conv.op # "none"
    /\ conv.op = "from_hyper_parts"
    /\ conv.method = <<"T", "R", "A", "C", "E">>
    /\ conv.out.method = "Get"
    /\ conv.out.body = RequestBodyNone

(***************************************************************************)
(* log.rs: LogLevel::from_str                                              *)
(***************************************************************************)
\* the default arm of the match
LogLevel_fallback_error == "Error"

LogLevel_fallback == "Info"

\* char::to_lowercase on one char: A..Z change; the Kelvin sign gives "k";
\* capital I with dot above gives two chars, "i" and a combining dot
to_lowercase_char(c) ==
    CASE \E i \in 1..26 : AsciiUpper[i] = c
             -> <<AsciiLower[CHOOSE i \in 1..26 : AsciiUpper[i] = c]>>
      [] c = "U+212A" -> <<"k">>
      [] c = "U+0130" -> <<"i", "U+0307">>
      [] OTHER        -> <<c>>

\* str::to_lowercase
RECURSIVE to_lowercase(_)
to_lowercase(str) ==
    IF str = <<>> THEN <<>>
    ELSE to_lowercase_char(Head(str)) \o to_lowercase(Tail(str))

\* LogLevel::from_str
LogLevel_from_str(s) ==
    LET l == to_lowercase(s) IN
    CASE l = <<"e", "r", "r", "o", "r">> -> "Error"
      [] l = <<"w", "a", "r", "n">>      -> "Warn"
      [] l = <<"i", "n", "f", "o">>      -> "Info"
      [] l = <<"l", "o", "g">>           -> "Log"
      [] l = <<"d", "e", "b", "u", "g">> -> "Debug"
      [] l = <<"t", "r", "a", "c", "e">> -> "Trace"
      [] OTHER                           -> LogLevel_fallback

\* the name a level is parsed from
LevelName(l) ==
    CASE l = "Error" -> <<"e", "r", "r", "o", "r">>
      [] l = "Warn"  -> <<"w", "a", "r", "n">>
      [] l = "Info"  -> <<"i", "n", "f", "o">>
      [] l = "Log"   -> <<"l", "o", "g">>
      [] l = "Debug" -> <<"d", "e", "b", "u", "g">>
      [] l = "Trace" -> <<"t", "r", "a", "c", "e">>

\* every spelling of the lowercase word w in which each letter is written
\* in lower or in upper case
RECURSIVE CaseSpellings(_)
CaseSpellings(w) ==
    IF w = <<>> THEN {<<>>}
    ELSE LET c == Head(w)
             up == AsciiUpper[CHOOSE i \in 1..26 : AsciiLower[i] = c]
         IN {<<x>> \o rest : x \in {c, up}, rest \in CaseSpellings(Tail(w))}

\* the strings handed to from_str: all spellings of the six names, names
\* written with a non-ASCII capital, the empty string, longer and shorter
\* words, surrounding whitespace, and other level words
LevelInputs ==
    UNION {CaseSpellings(LevelName(l)) : l \in LogLevels}
    \cup {<<>>, <<" ">>, <<"1">>,
          <<"U+0130", "n", "f", "o">>, <<"U+0130", "N", "F", "O">>,
          <<"w", "a", "r", "n", "i", "n", "g">>, <<"e", "r", "r">>,
          <<"f", "a", "t", "a", "l">>, <<"F", "A", "T", "A", "L">>,
          <<"l", "o", "g", " ">>, <<" ", "l", "o", "g">>,
          <<"d", "e", "b", "u", "g", "\n">>, <<"t", "r", "a", "c", "e", "s">>,
          <<"l", "o", "U+212A">>}

\* LogLevel::from_str(str)
ParseLevel(str) ==
    /\ levelStr = None
    /\ levelStr' = str
    /\ logLevel' = Some(LogLevel_from_str(str))
    /\ UNCHANGED <<priorVars, convVars, limitVars>>

LogNext == \E str \in LevelInputs : ParseLevel(str)

InitLog ==
    /\ levelStr = None
    /\ logLevel = None

\* C25: LogLevel::from_str returns a level for every string: the level whose
\* name the string is when letter case is ignored, and Info for every string
\* that is none of the six names.
C25_LevelParse ==
    /\ levelStr = None => \A str \in LevelInputs : ENABLED ParseLevel(str)
    /\ levelStr # None =>
           LET ls == {l \in LogLevels :
                         eq_ignore_ascii_case(levelStr, LevelName(l))}
           IN /\ logLevel[1] = "Some"
              /\ logLevel[2] \in LogLevels
              /\ IF ls # {} THEN logLevel[2] \in ls ELSE logLevel[2] = "Info"

C25_Witness ==
    /\ levelStr = <<"F", "A", "T", "A", "L">>
    /\ logLevel = Some("Info")

(***************************************************************************)
(* limits.rs: RuntimeLimits and its defaults                               *)
(***************************************************************************)
MaxOverrides == 2

\* impl Default for BindingLimit
BindingLimit_default == BindingLimit_unlimited

\* impl Default for RuntimeLimits, with another CPU budget
RuntimeLimits_default_cpu100 ==
    [heap_initial_mb        |-> 1,
     heap_max_mb            |-> 128,
     max_cpu_time_ms        |-> 100,
     max_wall_clock_time_ms |-> 30000,
     stream_buffer_size     |-> 16,
     fetch_limit            |-> BindingLimit_new(50, 6),
     kv_limit               |-> BindingLimit_new(1000, 10),
     database_limit         |-> BindingLimit_new(100, 5),
     storage_limit          |-> BindingLimit_new(100, 3)]

\* impl Default for RuntimeLimits
RuntimeLimits_default ==
    [heap_initial_mb        |-> 1,
     heap_max_mb            |-> 128,
     max_cpu_time_ms        |-> 50,
     max_wall_clock_time_ms |-> 30000,
     stream_buffer_size     |-> 16,
     fetch_limit            |-> BindingLimit_new(50, 6),
     kv_limit               |-> BindingLimit_new(1000, 10),
     database_limit         |-> BindingLimit_new(100, 5),
     storage_limit          |-> BindingLimit_new(100, 3)]

ScalarFields == {"heap_initial_mb", "heap_max_mb", "max_cpu_time_ms",
                 "max_wall_clock_time_ms", "stream_buffer_size"}
BindingFields == {"fetch_limit", "kv_limit", "database_limit",
                  "storage_limit"}
LimitFields == ScalarFields \cup BindingFields

\* the values a caller writes into a field
FieldValues(f) ==
    IF f \in ScalarFields THEN {0, 7}
    ELSE {BindingLimit_default, BindingLimit_new(2, 1)}

\* RuntimeLimits::default()
BuildDefault ==
    /\ limits = None
    /\ limits' = Some(RuntimeLimits_default)
    /\ overridden' = <<>>
    /\ UNCHANGED <<priorVars, convVars, logVars>>

\* RuntimeLimits { f: v, ..limits }, or limits.f = v on the public field
Override(f, v) ==
    /\ limits # None
    /\ f \notin DOMAIN overridden
    /\ Cardinality(DOMAIN overridden) < MaxOverrides
    /\ limits' = Some([limits[2] EXCEPT ![f] = v])
    /\ overridden' = HashMap_insert(overridden, f, v)
    /\ UNCHANGED <<priorVars, convVars, logVars>>

LimitsNext ==
    \/ BuildDefault
    \/ \E f \in LimitFields : \E v \in FieldValues(f) : Override(f, v)

InitLimits ==
    /\ limits = None
    /\ overridden = <<>>

\* C26: a RuntimeLimits built from default() has heap 1/128 MB, CPU 50 ms,
\* wall clock 30000 ms, stream buffer 16, fetch 50/6, KV 1000/10, database
\* 100/5 and storage 100/3 in every field that was not given explicitly, and
\* the given value in every field that was; BindingLimit::default() and
\* BindingLimit::unlimited() are 0/0.
C26_Defaults ==
    /\ BindingLimit_default = [max_total |-> 0, max_concurrent |-> 0]
    /\ BindingLimit_unlimited = [max_total |-> 0, max_concurrent |-> 0]
    /\ limits # None =>
           LET l == limits[2]
               kept(f) == f \notin DOMAIN overridden
               pair(t, c) == [max_total |-> t, max_concurrent |-> c]
           IN /\ kept("heap_initial_mb") => l.heap_initial_mb = 1
              /\ kept("heap_max_mb") => l.heap_max_mb = 128
              /\ kept("max_cpu_time_ms") => l.max_cpu_time_ms = 50
              /\ kept("max_wall_clock_time_ms") =>
                     l.max_wall_clock_time_ms = 30000
              /\ kept("stream_buffer_size") => l.stream_buffer_size = 16
              /\ kept("fetch_limit") => l.fetch_limit = pair(50, 6)
              /\ kept("kv_limit") => l.kv_limit = pair(1000, 10)
              /\ kept("database_limit") => l.database_limit = pair(100, 5)
              /\ kept("storage_limit") => l.storage_limit = pair(100, 3)
              /\ \A f \in DOMAIN overridden : l[f] = overridden[f]

C26_Witness ==
    /\ limits # None
    /\ DOMAIN overridden = {"kv_limit", "max_cpu_time_ms"}
    /\ limits[2].kv_limit = BindingLimit_new(2, 1)
    /\ limits[2].max_cpu_time_ms = 0
    /\ limits[2].fetch_limit = BindingLimit_new(50, 6)

InitHost ==
    InitTerm /\ InitMethod /\ InitBus /\ InitWorker /\ InitConv /\ InitLog
    /\ InitLimits

Init == InitTask /\ InitStream /\ InitOps /\ InitHost

TaskSpec   == Init /\ [][TaskNext]_vars
\* the holder of an event runs to an end, where the sender has been sent on
\* or goes out of scope; the caller keeps awaiting its receiver
FairTaskSpec == TaskSpec /\ WF_vars(HolderStep) /\ WF_vars(AwaitReceiver)
StreamSpec == Init /\ [][StreamNext]_vars
\* the runtime polls the producer and the collecting consumer whenever
\* they can make progress
FairStreamSpec == StreamSpec /\ WF_vars(ProducerStep) /\ WF_vars(CollectStep)
OpsSpec    == Init /\ [][OpsNext]_vars
TermSpec   == Init /\ [][TermNext]_vars
MethodSpec == Init /\ [][MethodNext]_vars
BusSpec    == Init /\ [][BusNext]_vars
WorkerSpec == Init /\ [][WorkerNext]_vars
ConvSpec   == Init /\ [][ConvNext]_vars
LogSpec    == Init /\ [][LogNext]_vars
LimitsSpec == Init /\ [][LimitsNext]_vars
\* abort() stops the running execution, and the caller keeps awaiting the
\* receivers of the tasks it handed out
FairWorkerSpec ==
    /\ WorkerSpec
    /\ \A w \in Workers : WF_vars(AbortedReturn(w))
    /\ \A t \in 1..MaxTasks : WF_vars(AwaitRx(t))

Next == TaskNext \/ StreamNext \/ OpsNext \/ TermNext \/ MethodNext \/ BusNext
           \/ WorkerNext \/ ConvNext \/ LogNext \/ LimitsNext
Spec == Init /\ [][Next]_vars

====
